---- MODULE Spec2Model ----
(***************************************************************************)
(* Model of pautobot/utils.py: the model download (download_model,         *)
(* download_file) and the frontend deployment (extract_frontend_dist).     *)
(*                                                                         *)
(* The file system is a map from paths to files.  A download call is a     *)
(* sequence of steps, one per file-system or network operation, so that    *)
(* the states between two operations (what another process, or an          *)
(* interruption, observes) are states of the model.                        *)
(***************************************************************************)
EXTENDS Integers, Sequences, FiniteSets, TLC

\* ------------------------------------------------------------------ bounds
MaxBody == 3        \* longest response body, in bytes
BlockSize == 2      \* stands for block_size = 8192: the largest chunk
MaxBodyConc == 2    \* longest response body when two processes download
MaxCalls == 2       \* calls of download_model one process makes in sequence
MaxDeploys == 2     \* calls of extract_frontend_dist

\* ------------------------------------------------------------- the domain
Procs == {1, 2}
Byte == {"a", "b"}
Hole == "z"                     \* a byte of a hole left by a write past the end
ModelPath == "model.bin"        \* the caller's model_path
TmpNames == {"tmp1", "tmp2"}    \* names tempfile can pick in the temp directory
Paths == {ModelPath} \cup TmpNames
NoTmp == "none"

NoFile == [ex |-> FALSE, data |-> <<>>]
EmptyFile == [ex |-> TRUE, data |-> <<>>]

Min(a, b) == IF a < b THEN a ELSE b
Max(a, b) == IF a < b THEN b ELSE a

Bodies == UNION {[1..n -> Byte] : n \in 0..MaxBody}

\* DEFAULT_MODEL_URLS: the registry of model names
DEFAULT_MODEL_URLS ==
    ("ggml-gpt4all-j" :>
        "https://gpt4all.io/models/ggml-gpt4all-j.bin" @@
     "ggml-gpt4all-j-v1.1-breezy" :>
        "https://gpt4all.io/models/ggml-gpt4all-j-v1.1-breezy.bin" @@
     "ggml-gpt4all-j-v1.2-jazzy" :>
        "https://gpt4all.io/models/ggml-gpt4all-j-v1.2-jazzy.bin" @@
     "ggml-gpt4all-j-v1.3-groovy" :>
        "https://gpt4all.io/models/ggml-gpt4all-j-v1.3-groovy.bin" @@
     "ggml-gpt4all-l13b-snoozy" :>
        "https://gpt4all.io/models/ggml-gpt4all-l13b-snoozy.bin" @@
     "ggml-mpt-7b-base" :>
        "https://gpt4all.io/models/ggml-mpt-7b-base.bin" @@
     "ggml-mpt-7b-instruct" :>
        "https://gpt4all.io/models/ggml-mpt-7b-instruct.bin" @@
     "ggml-nous-gpt4-vicuna-13b" :>
        "https://gpt4all.io/models/ggml-nous-gpt4-vicuna-13b.bin" @@
     "ggml-replit-code-v1-3b" :>
        "https://huggingface.co/nomic-ai/ggml-replit-code-v1-3b/resolve/main/ggml-replit-code-v1-3b.bin" @@
     "ggml-stable-vicuna-13B.q4_2" :>
        "https://gpt4all.io/models/ggml-stable-vicuna-13B.q4_2.bin" @@
     "ggml-v3-13b-hermes-q5_1" :>
        "https://huggingface.co/eachadea/ggml-nous-hermes-13b/resolve/main/ggml-v3-13b-hermes-q5_1.bin" @@
     "ggml-vicuna-13b-1.1-q4_2" :>
        "https://gpt4all.io/models/ggml-vicuna-13b-1.1-q4_2.bin" @@
     "ggml-vicuna-7b-1.1-q4_2" :>
        "https://gpt4all.io/models/ggml-vicuna-7b-1.1-q4_2.bin" @@
     "ggml-wizard-13b-uncensored" :>
        "https://gpt4all.io/models/ggml-wizard-13b-uncensored.bin" @@
     "ggml-wizardLM-7B.q4_2" :>
        "https://gpt4all.io/models/ggml-wizardLM-7B.q4_2.bin")

\* The model_type arguments the callers pass: the hardwired one, another
\* registered one, and one the registry does not hold.
ModelTypes == {"ggml-replit-code-v1-3b", "ggml-gpt4all-j", "no-such-model"}

\* The responses of the server.  A response that is not 200 has its body
\* never read.  The declared content-length and the bytes iter_content
\* yields are two things the server and the transport decide: a
\* content-encoded or truncated body does not have the declared length.
ErrorResponse == [status |-> 404, hasLen |-> FALSE, clen |-> 0, body |-> <<>>]
OkResponses ==
    {[status |-> 200, hasLen |-> h, clen |-> c, body |-> b] :
        h \in BOOLEAN, c \in 0..MaxBody, b \in Bodies}
Responses == {r \in OkResponses : r.hasLen \/ r.clen = 0} \cup {ErrorResponse}
\* The responses whose body has the declared length, for two processes.
WellFormed ==
    {r \in Responses :
        r.status = 200 => r.hasLen /\ r.clen = Len(r.body) /\ Len(r.body) <= MaxBodyConc}

VARIABLES
    fs,          \* the file system: path -> [ex, data]
    parentDir,   \* whether the parent directory of model_path exists
    sameFs,      \* whether the temp directory and model_path share a file system
    pc,          \* where each process is
    callsLeft,   \* calls of download_model the process still makes
    model_type,  \* the argument of the current call
    url,         \* the url download_file was given
    tmp,         \* tmp_file.name of the current call
    resp,        \* the response of the current call
    total_size,  \* the total given to the progress bar
    prog,        \* progress_bar.n
    pos,         \* the position of the process's open file
    reqs,        \* requests issued during the current call
    log,         \* messages logged during the current call
    exitStatus,  \* status the process exited with, -1 while it runs
    snap,        \* the file system when the current call began
    callNo,      \* number of the current call of the process, from 1
    okCall,      \* number of the call that moved a file to model_path, 0 if none
    raised,      \* whether an operation of download_file raised
    prevProg,    \* progress_bar.n before its latest update
    target,      \* static_folder: [ex, files]
    bundle,      \* the packaged frontend-dist: [ex, files]
    dpc,         \* where extract_frontend_dist is
    deploysLeft, \* calls of extract_frontend_dist still made
    before       \* static_folder when the current call began

dlvars == <<fs, parentDir, sameFs, pc, callsLeft, model_type, url, tmp, resp,
            total_size, prog, pos, reqs, log, exitStatus, snap, callNo, okCall, raised, prevProg>>
dpvars == <<target, bundle, dpc, deploysLeft, before>>
vars == <<dlvars, dpvars>>

\* ------------------------------------------------------- pure operations
\* file.write(chunk) at position p of a file holding d
WriteAt(d, p, chunk) ==
    [i \in 1..Max(Len(d), p + Len(chunk)) |->
        IF i > p /\ i <= p + Len(chunk) THEN chunk[i - p]
        ELSE IF i <= Len(d) THEN d[i] ELSE Hole]

\* a faulty existence test: model_path is never found (C2 depends on the test)
PathExistsNever(f, path) == FALSE

\* os.path.exists(model_path)
PathExists(f, path) == f[path].ex

\* a faulty update: the count is set to the chunk's length, not advanced by it
ProgressSet(n, chunk) == Len(chunk)

\* progress_bar.update(len(chunk))
ProgressUpdate(n, chunk) == n + Len(chunk)

\* int(response.headers.get("content-length", 0))
TotalSize(r) == IF r.hasLen THEN r.clen ELSE 0

\* a faulty except clause: exit(1) is missing and the call goes on to line 141
ExceptSwallow(lg) ==
    [pc |-> "returned", status |-> 0,
     log |-> lg \o <<"Error while downloading model", "Model downloaded!">>]

\* the except clause of download_model: log, print the trace, exit(1)
ExceptClause(lg) ==
    [pc |-> "exited", status |-> 1,
     log |-> Append(lg, "Error while downloading model")]

\* the file download_file writes the chunks to
ChunkFile(tmpName, file_path) == tmpName

\* MODEL_URL of download_model
ModelUrl(mt) == DEFAULT_MODEL_URLS["ggml-replit-code-v1-3b"]

\* ------------------------------------------------------------------ Init
DeployIdle ==
    /\ target = [ex |-> FALSE, files |-> {}]
    /\ bundle = [ex |-> FALSE, files |-> {}]
    /\ dpc = "idle"
    /\ deploysLeft = 0
    /\ before = [ex |-> FALSE, files |-> {}]

PreExisting == [ex |-> TRUE, data |-> <<"b", "a">>]

DownloadInit(calls, fsChoices, models) ==
    /\ sameFs \in fsChoices
    /\ \E m \in models :
          /\ fs = [p \in Paths |-> IF p = ModelPath THEN m ELSE NoFile]
          /\ snap = [p \in Procs |-> fs]
          /\ parentDir \in IF m.ex THEN {TRUE} ELSE BOOLEAN
    /\ pc = [p \in Procs |-> "idle"]
    /\ callsLeft = calls
    /\ model_type = [p \in Procs |-> "none"]
    /\ url = [p \in Procs |-> "none"]
    /\ tmp = [p \in Procs |-> NoTmp]
    /\ resp = [p \in Procs |-> ErrorResponse]
    /\ total_size = [p \in Procs |-> 0]
    /\ prog = [p \in Procs |-> 0]
    /\ pos = [p \in Procs |-> 0]
    /\ reqs = [p \in Procs |-> 0]
    /\ log = [p \in Procs |-> <<>>]
    /\ exitStatus = [p \in Procs |-> -1]
    /\ callNo = [p \in Procs |-> 0]
    /\ okCall = [p \in Procs |-> 0]
    /\ raised = [p \in Procs |-> FALSE]
    /\ prevProg = [p \in Procs |-> 0]

\* One process calling download_model MaxCalls times in sequence.
Init ==
    /\ DownloadInit([p \in Procs |-> IF p = 1 THEN MaxCalls ELSE 0], BOOLEAN, {NoFile, PreExisting})
    /\ DeployIdle

\* --------------------------------------------------------------- actions
\* download_model, lines 131-134: the call, MODEL_URL and the existence test
Call(p, mt) ==
    /\ pc[p] \in {"idle", "returned"}
    /\ callsLeft[p] > 0
    /\ callsLeft' = [callsLeft EXCEPT ![p] = @ - 1]
    /\ model_type' = [model_type EXCEPT ![p] = mt]
    /\ url' = [url EXCEPT ![p] = ModelUrl(mt)]
    /\ tmp' = [tmp EXCEPT ![p] = NoTmp]
    /\ resp' = [resp EXCEPT ![p] = ErrorResponse]
    /\ total_size' = [total_size EXCEPT ![p] = 0]
    /\ prog' = [prog EXCEPT ![p] = 0]
    /\ pos' = [pos EXCEPT ![p] = 0]
    /\ reqs' = [reqs EXCEPT ![p] = 0]
    /\ snap' = [snap EXCEPT ![p] = fs]
    /\ IF ~PathExists(fs, ModelPath)
         THEN /\ log' = [log EXCEPT ![p] = <<"Downloading model...">>]
              /\ pc' = [pc EXCEPT ![p] = "mktemp"]
         ELSE /\ log' = [log EXCEPT ![p] = <<>>]
              /\ pc' = [pc EXCEPT ![p] = "returned"]
    /\ callNo' = [callNo EXCEPT ![p] = @ + 1]
    /\ prevProg' = [prevProg EXCEPT ![p] = 0]
    /\ UNCHANGED <<fs, parentDir, sameFs, exitStatus, okCall, raised, dpvars>>

\* download_file, line 80: tempfile.NamedTemporaryFile(delete=False)
MkTemp(p) ==
    /\ pc[p] = "mktemp"
    /\ \E n \in TmpNames :
          /\ ~fs[n].ex
          /\ fs' = [fs EXCEPT ![n] = EmptyFile]
          /\ tmp' = [tmp EXCEPT ![p] = n]
    /\ pc' = [pc EXCEPT ![p] = "mkdir"]
    /\ UNCHANGED <<parentDir, sameFs, callsLeft, model_type, url, resp, total_size,
                   prog, pos, reqs, log, exitStatus, snap, callNo, okCall, raised,
                   prevProg, dpvars>>

\* download_file, line 81: parent.mkdir(parents=True, exist_ok=True)
MkDir(p) ==
    /\ pc[p] = "mkdir"
    /\ parentDir' = TRUE
    /\ pc' = [pc EXCEPT ![p] = "get"]
    /\ UNCHANGED <<fs, sameFs, callsLeft, model_type, url, tmp, resp, total_size, prog,
                   pos, reqs, log, exitStatus, snap, callNo, okCall, raised, prevProg,
                   dpvars>>

\* download_file, lines 82-90: the request answered 200; the progress bar
\* and the temporary file are opened
GetOk(p, r) ==
    /\ pc[p] = "get"
    /\ r.status = 200
    /\ reqs' = [reqs EXCEPT ![p] = @ + 1]
    /\ resp' = [resp EXCEPT ![p] = r]
    /\ total_size' = [total_size EXCEPT ![p] = TotalSize(r)]
    /\ prog' = [prog EXCEPT ![p] = 0]
    /\ pos' = [pos EXCEPT ![p] = 0]
    /\ fs' = [fs EXCEPT ![ChunkFile(tmp[p], ModelPath)] = EmptyFile]
    /\ pc' = [pc EXCEPT ![p] = "stream"]
    /\ prevProg' = [prevProg EXCEPT ![p] = 0]
    /\ UNCHANGED <<parentDir, sameFs, callsLeft, model_type, url, tmp, log, exitStatus,
                   snap, callNo, okCall, raised, dpvars>>

\* download_file, lines 82-85 and 99-100, then download_model line 141: the
\* request answered another status; download_file logs and returns
GetFailed(p, r) ==
    /\ pc[p] = "get"
    /\ r.status # 200
    /\ reqs' = [reqs EXCEPT ![p] = @ + 1]
    /\ resp' = [resp EXCEPT ![p] = r]
    /\ log' = [log EXCEPT ![p] = @ \o <<"Failed to download file.", "Model downloaded!">>]
    /\ pc' = [pc EXCEPT ![p] = "returned"]
    /\ UNCHANGED <<fs, parentDir, sameFs, callsLeft, model_type, url, tmp, total_size,
                   prog, pos, exitStatus, snap, callNo, okCall, raised, prevProg,
                   dpvars>>

\* download_file, lines 92-94: one chunk of at most block_size bytes
Stream(p, k) ==
    /\ pc[p] = "stream"
    /\ k >= 1 /\ k <= Min(BlockSize, Len(resp[p].body) - pos[p])
    /\ LET chunk == SubSeq(resp[p].body, pos[p] + 1, pos[p] + k)
           f == ChunkFile(tmp[p], ModelPath)
       IN /\ fs' = [fs EXCEPT ![f] = [ex |-> TRUE, data |-> WriteAt(fs[f].data, pos[p], chunk)]]
          /\ prog' = [prog EXCEPT ![p] = ProgressUpdate(@, chunk)]
    /\ pos' = [pos EXCEPT ![p] = @ + k]
    /\ prevProg' = [prevProg EXCEPT ![p] = prog[p]]
    /\ UNCHANGED <<parentDir, sameFs, pc, callsLeft, model_type, url, tmp, resp,
                   total_size, reqs, log, exitStatus, snap, callNo, okCall, raised,
                   dpvars>>

\* download_file, lines 96-98, then download_model line 141: the body is
\* exhausted, and shutil.move renames the temporary file (os.rename succeeds)
MoveRename(p) ==
    /\ pc[p] = "stream"
    /\ pos[p] = Len(resp[p].body)
    /\ sameFs
    /\ fs' = [fs EXCEPT ![ModelPath] = fs[tmp[p]], ![tmp[p]] = NoFile]
    /\ log' = [log EXCEPT ![p] = @ \o <<"File downloaded successfully.", "Model downloaded!">>]
    /\ okCall' = [okCall EXCEPT ![p] = callNo[p]]
    /\ pc' = [pc EXCEPT ![p] = "returned"]
    /\ UNCHANGED <<parentDir, sameFs, callsLeft, model_type, url, tmp, resp,
                   total_size, prog, pos, reqs, exitStatus, snap, callNo, raised,
                   prevProg, dpvars>>

\* download_file, lines 96-97: the body is exhausted, and os.rename fails
\* because the temporary file is on another file system; shutil.move copies
\* instead, and the copy opens model_path for writing
MoveCopyOpen(p) ==
    /\ pc[p] = "stream"
    /\ pos[p] = Len(resp[p].body)
    /\ ~sameFs
    /\ fs' = [fs EXCEPT ![ModelPath] = EmptyFile]
    /\ pos' = [pos EXCEPT ![p] = 0]
    /\ pc' = [pc EXCEPT ![p] = "copy"]
    /\ UNCHANGED <<parentDir, sameFs, callsLeft, model_type, url, tmp, resp,
                   total_size, prog, reqs, log, exitStatus, snap, callNo, okCall,
                   raised, prevProg, dpvars>>

\* download_file, line 97: the copy of shutil.move writes one block to model_path
CopyBlock(p, k) ==
    /\ pc[p] = "copy"
    /\ k >= 1 /\ k <= Min(BlockSize, Len(fs[tmp[p]].data) - pos[p])
    /\ LET block == SubSeq(fs[tmp[p]].data, pos[p] + 1, pos[p] + k)
       IN fs' = [fs EXCEPT ![ModelPath] =
                    [ex |-> TRUE, data |-> WriteAt(fs[ModelPath].data, pos[p], block)]]
    /\ pos' = [pos EXCEPT ![p] = @ + k]
    /\ UNCHANGED <<parentDir, sameFs, pc, callsLeft, model_type, url, tmp, resp,
                   total_size, prog, reqs, log, exitStatus, snap, callNo, okCall,
                   raised, prevProg, dpvars>>

\* download_file, lines 97-98, then download_model line 141: the copy is
\* complete, and shutil.move unlinks the temporary file
CopyDone(p) ==
    /\ pc[p] = "copy"
    /\ pos[p] = Len(fs[tmp[p]].data)
    /\ fs' = [fs EXCEPT ![tmp[p]] = NoFile]
    /\ log' = [log EXCEPT ![p] = @ \o <<"File downloaded successfully.", "Model downloaded!">>]
    /\ okCall' = [okCall EXCEPT ![p] = callNo[p]]
    /\ pc' = [pc EXCEPT ![p] = "returned"]
    /\ UNCHANGED <<parentDir, sameFs, callsLeft, model_type, url, tmp, resp,
                   total_size, prog, pos, reqs, exitStatus, snap, callNo, raised,
                   prevProg, dpvars>>

\* download_model, lines 137-140: an operation of download_file raises (the
\* temporary file, the directory, the request, a chunk, a write, the move)
Raise(p) ==
    /\ pc[p] \in {"mktemp", "mkdir", "get", "stream", "copy"}
    /\ LET h == ExceptClause(log[p])
       IN /\ pc' = [pc EXCEPT ![p] = h.pc]
          /\ exitStatus' = [exitStatus EXCEPT ![p] = IF h.pc = "exited" THEN h.status ELSE @]
          /\ log' = [log EXCEPT ![p] = h.log]
    /\ raised' = [raised EXCEPT ![p] = TRUE]
    /\ UNCHANGED <<fs, parentDir, sameFs, callsLeft, model_type, url, tmp, resp,
                   total_size, prog, pos, reqs, snap, callNo, okCall, prevProg, dpvars>>

Next ==
    \E p \in Procs :
        \/ \E mt \in ModelTypes : Call(p, mt)
        \/ MkTemp(p)
        \/ MkDir(p)
        \/ \E r \in Responses : GetOk(p, r)
        \/ \E r \in Responses : GetFailed(p, r)
        \/ \E k \in 1..BlockSize : Stream(p, k)
        \/ MoveRename(p)
        \/ MoveCopyOpen(p)
        \/ \E k \in 1..BlockSize : CopyBlock(p, k)
        \/ CopyDone(p)
        \/ Raise(p)

Spec == Init /\ [][Next]_vars

\* Two processes, each calling download_model once, on the same model_path.
InitConc ==
    /\ DownloadInit([p \in Procs |-> 1], BOOLEAN, {NoFile, PreExisting})
    /\ DeployIdle

NextConc ==
    \E p \in Procs :
        \/ Call(p, "ggml-replit-code-v1-3b")
        \/ MkTemp(p)
        \/ MkDir(p)
        \/ \E r \in WellFormed : GetOk(p, r)
        \/ \E r \in WellFormed : GetFailed(p, r)
        \/ \E k \in 1..BlockSize : Stream(p, k)
        \/ MoveRename(p)
        \/ MoveCopyOpen(p)
        \/ \E k \in 1..BlockSize : CopyBlock(p, k)
        \/ CopyDone(p)
        \/ Raise(p)

SpecConc == InitConc /\ [][NextConc]_vars

\* ------------------------------------------------ extract_frontend_dist
\* A directory is [ex, files]; a file is <<name, content>>.
NoDir == [ex |-> FALSE, files |-> {}]
Placeholder == <<"index.html", "placeholder">>
StaleNames == {"index.html", "app.js", "old.txt"}
BundleNames == {"index.html", "app.js"}

Dirs(names, content) ==
    {[ex |-> TRUE, files |-> {<<n, content>> : n \in S}] : S \in SUBSET names}

\* shutil.rmtree(static_folder, ignore_errors=True): the directory is gone, or
\* a deletion failed, the error is dropped, and the directory is left with
\* the files that were not deleted
Rmtree(d) == {NoDir} \cup {[ex |-> TRUE, files |-> R] : R \in SUBSET d.files}

\* shutil.copytree(dist_folder, static_folder) into an absent static_folder
CopyTree(src) == [ex |-> TRUE, files |-> src.files]

\* lines 68-72: mkdir and the index.html page
WritePlaceholder == [ex |-> TRUE, files |-> {Placeholder}]

DownloadIdle == DownloadInit([p \in Procs |-> 0], {TRUE}, {PreExisting})

InitDeploy ==
    /\ DownloadIdle
    /\ target \in {NoDir} \cup Dirs(StaleNames, "stale")
    /\ bundle \in {NoDir} \cup Dirs(BundleNames, "bundle")
    /\ dpc = "idle"
    /\ deploysLeft = MaxDeploys
    /\ before = NoDir

\* lines 59-61: static_folder exists and is removed, errors ignored
Refresh(out) ==
    /\ dpc \in {"idle", "returned"}
    /\ deploysLeft > 0
    /\ target.ex
    /\ out \in Rmtree(target)
    /\ before' = target
    /\ target' = out
    /\ deploysLeft' = deploysLeft - 1
    /\ dpc' = "locate"
    /\ UNCHANGED <<bundle, dlvars>>

\* line 59: static_folder does not exist
NoRefresh ==
    /\ dpc \in {"idle", "returned"}
    /\ deploysLeft > 0
    /\ ~target.ex
    /\ before' = target
    /\ deploysLeft' = deploysLeft - 1
    /\ dpc' = "locate"
    /\ UNCHANGED <<target, bundle, dlvars>>

\* lines 62-65: the bundle exists and is copied
Copy ==
    /\ dpc = "locate"
    /\ bundle.ex
    /\ ~target.ex
    /\ target' = CopyTree(bundle)
    /\ dpc' = "check"
    /\ UNCHANGED <<bundle, deploysLeft, before, dlvars>>

\* lines 62-65: the bundle exists, and copytree raises FileExistsError
\* because static_folder is still there
CopyRaises ==
    /\ dpc = "locate"
    /\ bundle.ex
    /\ target.ex
    /\ dpc' = "raised"
    /\ UNCHANGED <<target, bundle, deploysLeft, before, dlvars>>

\* lines 62-63: no packaged bundle
NoBundle ==
    /\ dpc = "locate"
    /\ ~bundle.ex
    /\ dpc' = "check"
    /\ UNCHANGED <<target, bundle, deploysLeft, before, dlvars>>

\* lines 66-73: static_folder does not exist; the placeholder page is written
Fallback ==
    /\ dpc = "check"
    /\ ~target.ex
    /\ target' = WritePlaceholder
    /\ dpc' = "returned"
    /\ UNCHANGED <<bundle, deploysLeft, before, dlvars>>

\* line 66: static_folder exists; the function returns
Return ==
    /\ dpc = "check"
    /\ target.ex
    /\ dpc' = "returned"
    /\ UNCHANGED <<target, bundle, deploysLeft, before, dlvars>>

NextDeploy ==
    \/ \E out \in Rmtree(target) : Refresh(out)
    \/ NoRefresh
    \/ Copy
    \/ CopyRaises
    \/ NoBundle
    \/ Fallback
    \/ Return

SpecDeploy == InitDeploy /\ [][NextDeploy]_vars

\* ---------------------------------------------------------------- claims
Logged(p, msg) == \E i \in 1..Len(log[p]) : log[p][i] = msg
Downloading(p) == pc[p] \in {"mkdir", "get", "stream", "copy"}
Completed(p) == Logged(p, "File downloaded successfully.")

\* C1: atomicity.  During a download to a model_path that did not exist when
\* the call began, and after the download was interrupted, the chunks go to
\* a temporary file that is not model_path, and model_path either does not
\* exist or holds the complete response body.
C1_Atomic ==
    \A p \in Procs :
        (callNo[p] >= 1 /\ ~snap[p][ModelPath].ex /\ tmp[p] # NoTmp) =>
            /\ tmp[p] # ModelPath
            /\ \/ ~fs[ModelPath].ex
               \/ resp[p].status = 200 /\ fs[ModelPath].data = resp[p].body

\* C2: idempotence.  A call that finds model_path existing issues no request,
\* creates no temporary file, logs no download and leaves model_path and
\* every other file as they were; so does every call after one that moved
\* the file into place.
C2_Idempotent ==
    \A p \in Procs :
        (callNo[p] >= 1 /\ (snap[p][ModelPath].ex \/ (okCall[p] >= 1 /\ callNo[p] > okCall[p]))) =>
            /\ pc[p] = "returned"
            /\ reqs[p] = 0
            /\ tmp[p] = NoTmp
            /\ log[p] = <<>>
            /\ fs[ModelPath].ex
            /\ fs = snap[p]

\* a second call has returned after the first one downloaded a body of two
\* bytes or more
C2_Witness ==
    \E p \in Procs :
        /\ okCall[p] = 1 /\ callNo[p] = 2 /\ pc[p] = "returned"
        /\ Len(fs[ModelPath].data) >= 2

\* C3: a status other than 200 is fatal.  After a request answered with
\* another status the process has exited with a non-zero status, and the
\* model is not reported as downloaded.
C3_NonOkFatal ==
    \A p \in Procs :
        (reqs[p] >= 1 /\ resp[p].status # 200) =>
            /\ pc[p] = "exited"
            /\ exitStatus[p] > 0
            /\ ~Logged(p, "Model downloaded!")

\* C4: an exception in download_file is fatal.  Once an operation of
\* download_file has raised, the error is logged, the process has exited
\* with status 1, "Model downloaded!" is not logged for the call, and the
\* call has issued at most one request.
C4_ExceptionFatal ==
    \A p \in Procs :
        raised[p] =>
            /\ Logged(p, "Error while downloading model")
            /\ pc[p] = "exited"
            /\ exitStatus[p] = 1
            /\ ~Logged(p, "Model downloaded!")
            /\ reqs[p] <= 1

\* a transfer interrupted after a first chunk was written
C4_Witness ==
    \E p \in Procs :
        /\ raised[p] /\ reqs[p] = 1 /\ resp[p].status = 200
        /\ fs[tmp[p]].ex /\ Len(fs[tmp[p]].data) >= 1
        /\ Len(fs[tmp[p]].data) < Len(resp[p].body)

\* C8: resolution.  The url requested for a registered model_type is the one
\* the registry maps it to; for a model_type the registry does not hold,
\* nothing is requested and no file or directory is created.
C8_Resolution ==
    \A p \in Procs :
        callNo[p] >= 1 =>
            IF model_type[p] \in DOMAIN DEFAULT_MODEL_URLS
              THEN reqs[p] >= 1 => url[p] = DEFAULT_MODEL_URLS[model_type[p]]
              ELSE reqs[p] = 0 /\ tmp[p] = NoTmp /\ pc[p] \notin {"mktemp", "mkdir", "get"}

\* C9 as stated: the count never decreases, it is the number of bytes written
\* to the temporary file, and a completed download with a declared
\* content-length ends with the count at that length.
C9_ProgressReachesTotal ==
    \A p \in Procs :
        /\ prevProg[p] <= prog[p]
        /\ (Downloading(p) /\ fs[tmp[p]].ex) => prog[p] = Len(fs[tmp[p]].data)
        /\ (Completed(p) /\ resp[p].hasLen) => prog[p] = total_size[p]

\* C9, amended: the count never decreases, it is the number of bytes written
\* to the temporary file, and a completed download ends with the count at
\* the number of body bytes received, which is the declared content-length
\* when the body has the declared length.
C9_Progress ==
    \A p \in Procs :
        /\ prevProg[p] <= prog[p]
        /\ (Downloading(p) /\ fs[tmp[p]].ex) => prog[p] = Len(fs[tmp[p]].data)
        /\ Completed(p) => prog[p] = Len(resp[p].body)
        /\ (Completed(p) /\ resp[p].hasLen /\ resp[p].clen = Len(resp[p].body)) =>
              prog[p] = total_size[p]

\* a completed download of three bytes, in two chunks or more, with a
\* declared content-length
C9_Witness ==
    \E p \in Procs :
        /\ Completed(p) /\ resp[p].hasLen /\ resp[p].clen = 3
        /\ prog[p] = 3 /\ prevProg[p] >= 1

\* C10: two concurrent calls that both began while model_path was absent
\* write to two different temporary files, neither of them model_path, and
\* model_path either does not exist or holds the complete body one of the
\* two calls received.
C10_ConcurrentAtomic ==
    (\A p \in Procs : callNo[p] = 1 /\ ~snap[p][ModelPath].ex) =>
        /\ \A p, q \in Procs :
              (p # q /\ Downloading(p) /\ Downloading(q)) => tmp[p] # tmp[q]
        /\ \A p \in Procs : Downloading(p) => tmp[p] # ModelPath
        /\ \/ ~fs[ModelPath].ex
           \/ \E p \in Procs :
                 resp[p].status = 200 /\ fs[ModelPath].data = resp[p].body

\* C5: deployment refresh.  A call on a static_folder that held stale files,
\* with the bundle packaged, ends with static_folder holding exactly the
\* bundle's files.
C5_Refresh ==
    (dpc \in {"returned", "raised"} /\ bundle.ex /\ before.ex /\ before.files # {}) =>
        target.ex /\ target.files = bundle.files

\* C6: degraded fallback.  A call with no bundle packaged does not raise, and
\* when it has returned static_folder holds the placeholder index.html and
\* nothing else.
C6_Fallback ==
    ~bundle.ex =>
        /\ dpc # "raised"
        /\ dpc = "returned" => target.ex /\ target.files = {Placeholder}

\* C7: after a call that returned, static_folder exists, is not empty, and
\* holds the bundle's files or the placeholder page alone.
C7_Valid ==
    dpc = "returned" =>
        /\ target.ex
        /\ target.files # {}
        /\ \/ bundle.ex /\ target.files = bundle.files
           \/ target.files = {Placeholder}

====
